---- MODULE Spec2Model ----
(***************************************************************************)
(* A model of stellar-spectra/data_cleaner.py: the nearest-wavelength      *)
(* matcher closest_value (as the loop it is), the bitmask error inflator   *)
(* bad_pix_indices / update_errors, interval_cut, create_wavelengths,      *)
(* get_continuum_wavelengths and the control flow of data_normalizer.      *)
(*                                                                         *)
(* Wavelengths, errors and header values are floats in the program; the    *)
(* model draws them from small integer ranges, on which the comparisons    *)
(* and subtractions the code makes are exact.  Arrays are sequences;       *)
(* Python's 0-based index k is position k+1 of the sequence.               *)
(***************************************************************************)
EXTENDS Integers, Sequences, FiniteSets

VARIABLES
    pc,                \* where the modelled function stands
    cont_wavelengths,  \* closest_value / data_normalizer: continuum wavelengths
    spec_wavelengths,  \* closest_value / data_normalizer: spectrum wavelengths
    i,                 \* closest_value: index of the for loop (line 53)
    j,                 \* closest_value: the cursor into spec_wavelengths
    fit_bools,         \* closest_value: the boolean mask being built
    matched,           \* history: the value of j recorded at line 58, per i
    steps,             \* history: while-bodies plus for-bodies executed
    data,              \* interval_cut: the array that is cut
    interval,          \* interval_cut / data_normalizer: <<start, end>>
    cut_inds,          \* interval_cut's result; data_normalizer's cut_inds
    errors,            \* update_errors: data[2].data
    mask_spectra,      \* update_errors: data[3].data
    bad_pixels_dict,   \* update_errors: the dictionary, key -> value
    nwave,             \* update_errors: data[0].header['nwave']
    updated_errors,    \* update_errors: the array returned
    cont_cut_inds,     \* data_normalizer: cont_cut_inds (line 177)
    cont_inds,         \* data_normalizer: closest_value's mask (line 186)
    dense_cut_inds,    \* data_normalizer: dense_cut_inds (line 199)
    crval1,            \* create_wavelengths: data[1].header['crval1']
    cdelt1,            \* create_wavelengths: data[1].header['cdelt1']
    exponent,          \* create_wavelengths: the exponents of the grid, scaled
    spectrum,          \* data_normalizer: data[1].data[0] (line 172)
    raised_at          \* data_normalizer: the line an exception left it at

vars == <<pc, cont_wavelengths, spec_wavelengths, i, j, fit_bools, matched,
          steps, data, interval, cut_inds, errors, mask_spectra,
          bad_pixels_dict, nwave, updated_errors, cont_cut_inds, cont_inds,
          dense_cut_inds, crval1, cdelt1, exponent, spectrum, raised_at>>

matcherVars == <<cont_wavelengths, spec_wavelengths, i, j, fit_bools, matched, steps>>
cutVars     == <<data, interval, cut_inds>>
inflateVars == <<errors, mask_spectra, bad_pixels_dict, nwave, updated_errors>>
gridVars    == <<crval1, cdelt1, exponent>>
normVars    == <<cont_cut_inds, cont_inds, dense_cut_inds, spectrum, raised_at>>

(***************************************************************************)
(* Bounds of the model.                                                    *)
(***************************************************************************)
\* closest_value on arbitrary (also unsorted) arrays
MaxVal == 3
MaxCont == 2
MaxSpec == 3
\* closest_value on strictly increasing arrays
MaxSortedVal == 8
MaxSortedCont == 2
MaxSortedSpec == 5

\* interval_cut
MaxCutVal == 2
MaxCutLen == 3
\* update_errors: pixels per array, highest bit position used
MaxPix == 2
MaxBit == 1
\* create_wavelengths: the header values crval1 and cdelt1
MaxStart == 9
MaxDelta == 5
\* data_normalizer: the wavelengths, the length that stands for the grid's
\* NumSamples (and bounds the arrays of the HDUs), the rows of the continuum
\* file, the bits of the masks and the dictionaries
MaxNormVal == 2
NormGridLen == 3
MaxNormCont == 3
MaxNormBit == 0

(***************************************************************************)
(* Helpers: the arrays the inputs are drawn from.                          *)
(***************************************************************************)
SeqsUpTo(S, n) == UNION {[1..k -> S] : k \in 0..n}

SetMin(T) == CHOOSE x \in T : \A y \in T : x <= y

RECURSIVE SortedSeq(_)
SortedSeq(T) == IF T = {} THEN <<>>
                ELSE <<SetMin(T)>> \o SortedSeq(T \ {SetMin(T)})

\* the strictly increasing arrays over S with at most n entries
IncreasingSeqs(S, n) == {SortedSeq(T) : T \in {U \in SUBSET S : Cardinality(U) <= n}}

StrictlyIncreasing(a) == \A p, q \in 1..Len(a) : p < q => a[p] < a[q]

Abs(x) == IF x < 0 THEN -x ELSE x

\* a[k] with Python's 0-based k
At(a, k) == a[k + 1]

\* a[k] does not raise IndexError (k is never negative in this code)
InRange(a, k) == 0 <= k /\ k < Len(a)

\* the number of true entries of a boolean array
TrueCount(fb) == Cardinality({k \in 1..Len(fb) : fb[k]})

\* the 0-based indices of a
Indices(a) == 0..(Len(a) - 1)

(***************************************************************************)
(* closest_value (data_cleaner.py lines 27-60)                             *)
(***************************************************************************)
\* line 51: fit_bools = np.full(m, False)
NewMask(m) == [k \in 1..m |-> FALSE]

\* line 55, left operand of `and`: j + 1 < m (before it, the bound off by
\* one either way)
WhileBoundOffByOne(jj, m) == jj + 2 < m
WhileBoundInclusive(jj, m) == jj + 1 <= m
WhileBound(jj, m) == jj + 1 < m

\* lines 55-56, right operand: abs(spec[j+1] - cont[i]) < abs(spec[j] - cont[i])
\* (before it, the comparison with <=)
CloserOrEqual(sw, jj, c) == Abs(At(sw, jj + 1) - c) <= Abs(At(sw, jj) - c)
Closer(sw, jj, c) == Abs(At(sw, jj + 1) - c) < Abs(At(sw, jj) - c)

\* One evaluation of the while condition of lines 55-56 for continuum value
\* c: "body" when the loop body runs, "exit" when the loop is left, "raise"
\* when an operand indexes spec_wavelengths out of range.  `and` does not
\* evaluate its right operand when the left one is false.
WhileTest(sw, jj, c) ==
    IF ~WhileBound(jj, Len(sw)) THEN "exit"
    ELSE IF ~(InRange(sw, jj + 1) /\ InRange(sw, jj)) THEN "raise"
    ELSE IF Closer(sw, jj, c) THEN "body"
    ELSE "exit"

\* line 58: fit_bools[j] = True (before it, the mask indexed by i)
MarkAtI(fb, ii, jj) == [fb EXCEPT ![ii + 1] = TRUE]
Mark(fb, ii, jj) == [fb EXCEPT ![jj + 1] = TRUE]

\* The whole function, as the pipeline calls it: the sweep of lines 52-60
\* from loop index ii, cursor jj and mask fb.
RECURSIVE Sweep(_, _, _, _, _)
Sweep(cw, sw, ii, jj, fb) ==
    IF ii >= Len(cw) THEN [status |-> "ok", fit_bools |-> fb]
    ELSE LET t == WhileTest(sw, jj, At(cw, ii)) IN
         IF t = "raise" THEN [status |-> "IndexError", fit_bools |-> fb]
         ELSE IF t = "body" THEN Sweep(cw, sw, ii, jj + 1, fb)
         ELSE IF ~InRange(fb, jj) THEN [status |-> "IndexError", fit_bools |-> fb]
         ELSE Sweep(cw, sw, ii + 1, jj, Mark(fb, ii, jj))

closest_value(cw, sw) == Sweep(cw, sw, 0, 0, NewMask(Len(sw)))

\* The same loop, one step at a time.
\* lines 55-57: the while condition holds and the body runs, j += 1
Advance ==
    /\ pc = "loop"
    /\ i < Len(cont_wavelengths)
    /\ WhileTest(spec_wavelengths, j, At(cont_wavelengths, i)) # "exit"
    /\ IF WhileTest(spec_wavelengths, j, At(cont_wavelengths, i)) = "raise"
       THEN /\ pc' = "IndexError"
            /\ UNCHANGED <<j, steps>>
       ELSE /\ j' = j + 1
            /\ steps' = steps + 1
            /\ pc' = pc
    /\ UNCHANGED <<cont_wavelengths, spec_wavelengths, i, fit_bools, matched>>
    /\ UNCHANGED <<cutVars, inflateVars, gridVars, normVars>>

\* lines 55-58 and 53: the while condition fails, fit_bools[j] = True, next i
Record ==
    /\ pc = "loop"
    /\ i < Len(cont_wavelengths)
    /\ WhileTest(spec_wavelengths, j, At(cont_wavelengths, i)) = "exit"
    /\ IF InRange(fit_bools, j)
       THEN /\ fit_bools' = Mark(fit_bools, i, j)
            /\ matched' = Append(matched, j)
            /\ i' = i + 1
            /\ steps' = steps + 1
            /\ pc' = pc
       ELSE /\ pc' = "IndexError"
            /\ UNCHANGED <<fit_bools, matched, i, steps>>
    /\ UNCHANGED <<cont_wavelengths, spec_wavelengths, j>>
    /\ UNCHANGED <<cutVars, inflateVars, gridVars, normVars>>

\* lines 53 and 60: range(n) is exhausted, return fit_bools
Return ==
    /\ pc = "loop"
    /\ i >= Len(cont_wavelengths)
    /\ pc' = "done"
    /\ UNCHANGED <<matcherVars, cutVars, inflateVars, gridVars, normVars>>

Next == Advance \/ Record \/ Return

\* the variables of the other functions, at rest
CutIdle == data = <<>> /\ interval = <<0, 0>> /\ cut_inds = <<>>
InflateIdle == /\ errors = <<>> /\ mask_spectra = <<>> /\ bad_pixels_dict = <<>>
               /\ nwave = 0 /\ updated_errors = <<>>
GridIdle == crval1 = 0 /\ cdelt1 = 0 /\ exponent = <<>>
NormIdle == /\ cont_cut_inds = <<>> /\ cont_inds = <<>> /\ dense_cut_inds = <<>>
            /\ spectrum = <<>> /\ raised_at = 0
MatcherIdle == /\ cont_wavelengths = <<>> /\ spec_wavelengths = <<>> /\ i = 0
               /\ j = 0 /\ fit_bools = <<>> /\ matched = <<>> /\ steps = 0

\* lines 50-52: n, m, fit_bools and j are set up
MatcherStart(cw, sw) ==
    /\ cont_wavelengths = cw
    /\ spec_wavelengths = sw
    /\ i = 0
    /\ j = 0
    /\ fit_bools = NewMask(Len(sw))
    /\ matched = <<>>
    /\ steps = 0
    /\ pc = "loop"
    /\ CutIdle /\ InflateIdle /\ GridIdle /\ NormIdle

\* closest_value called on any two arrays, sorted or not
Init ==
    \E cw \in SeqsUpTo(0..MaxVal, MaxCont), sw \in SeqsUpTo(0..MaxVal, MaxSpec) :
        MatcherStart(cw, sw)

Spec == Init /\ [][Next]_vars

\* closest_value called on two strictly increasing arrays
InitSorted ==
    \E cw \in IncreasingSeqs(0..MaxSortedVal, MaxSortedCont),
       sw \in IncreasingSeqs(0..MaxSortedVal, MaxSortedSpec) :
        MatcherStart(cw, sw)

SpecSorted == InitSorted /\ [][Next]_vars

(***************************************************************************)
(* interval_cut (data_cleaner.py lines 141-146)                            *)
(***************************************************************************)
\* line 146: start < data (before it, the comparison with <=)
AboveStartOrEqual(x, start) == start <= x
AboveStart(x, start) == start < x

\* line 146: data < end (before it, the comparison with <=)
BelowEndOrEqual(x, end) == x <= end
BelowEnd(x, end) == x < end

\* np.where(cond)[0] for the set of indices where cond holds: ascending
WhereIndices(T) == SortedSeq(T)

Range(a) == {a[k] : k \in 1..Len(a)}

\* np.intersect1d: the sorted, unique values that are in both arrays
Intersect1d(a, b) == SortedSeq(Range(a) \cap Range(b))

interval_cut(d, intv) ==
    LET start == intv[1]
        end == intv[2]
    IN  Intersect1d(WhereIndices({k \in Indices(d) : AboveStart(At(d, k), start)}),
                    WhereIndices({k \in Indices(d) : BelowEnd(At(d, k), end)}))

\* array[inds]: the entries of array at the indices inds, in that order
Take(a, inds) == [k \in 1..Len(inds) |-> At(a, inds[k])]

\* interval_cut is called and returns
Cut ==
    /\ pc = "cut"
    /\ cut_inds' = interval_cut(data, interval)
    /\ pc' = "done"
    /\ UNCHANGED <<data, interval, matcherVars, inflateVars, gridVars, normVars>>

InitCut ==
    /\ data \in SeqsUpTo(0..MaxCutVal, MaxCutLen)
    /\ interval \in (-1..(MaxCutVal + 1)) \X (-1..(MaxCutVal + 1))
    /\ cut_inds = <<>>
    /\ pc = "cut"
    /\ MatcherIdle /\ InflateIdle /\ GridIdle /\ NormIdle

SpecCut == InitCut /\ [][Cut]_vars

(***************************************************************************)
(* bad_pix_indices and update_errors (data_cleaner.py lines 62-117)        *)
(***************************************************************************)
\* Errors are written <<mantissa, decimal exponent>>: they are only copied
\* and compared for equality, and 1E+10 is beyond the integers of the checker.
\* lines 113 and 116: the error given to bad pixels, 1E+10
BadPixelError == <<1, 10>>

\* an error of 1.0
UnitError == <<1, 0>>

RECURSIVE Pow2(_)
Pow2(k) == IF k = 0 THEN 1 ELSE 2 * Pow2(k - 1)

\* a & b on non-negative integers
RECURSIVE BitAnd(_, _)
BitAnd(a, b) == IF a = 0 \/ b = 0 THEN 0
                ELSE (a % 2) * (b % 2) + 2 * BitAnd(a \div 2, b \div 2)

\* lines 85-87: bit_sum += 2**int(key) for every key of the dictionary; the
\* values stored under the keys are not read
RECURSIVE SumPow2(_)
SumPow2(K) == IF K = {} THEN 0
              ELSE LET k == SetMin(K) IN Pow2(k) + SumPow2(K \ {k})

BitSum(d) == SumPow2(DOMAIN d)

\* line 91: bitmask_array & bad_bitmask > 0 is (bitmask_array & bad_bitmask) > 0
\* (before it, the comparison with >=)
IsBadNonNegative(v, m) == BitAnd(v, m) >= 0
IsBad(v, m) == BitAnd(v, m) > 0

\* lines 84-91.  bad_bitmask has len entries; numpy broadcasts the two
\* operands of & when their lengths are equal or one of them is 1, and raises
\* ValueError otherwise.
bad_pix_indices(bitmask_array, d, len) ==
    LET bit_sum == BitSum(d)
        B == Len(bitmask_array)
    IN  IF B # len /\ B # 1 /\ len # 1
        THEN [status |-> "ValueError", inds |-> <<>>]
        ELSE LET n == IF B = 1 THEN len ELSE B
                 elt(k) == IF B = 1 THEN At(bitmask_array, 0) ELSE At(bitmask_array, k)
             IN  [status |-> "ok",
                  inds |-> WhereIndices({k \in 0..(n - 1) : IsBad(elt(k), bit_sum)})]

\* lines 109-117 on one-dimensional arrays (of a two-dimensional stack the
\* code treats row 0 in the same way).  mask_spectra[0] of line 112 raises
\* IndexError on an empty array; the assignment of line 116 raises IndexError
\* when an index is not one of updated_errors.
update_errors(errs, mask, d, nw) ==
    IF Len(mask) = 0 THEN [status |-> "IndexError", errors |-> errs]
    ELSE LET bad == bad_pix_indices(mask, d, nw) IN
         IF bad.status # "ok" THEN [status |-> bad.status, errors |-> errs]
         ELSE IF \E k \in Range(bad.inds) : ~InRange(errs, k)
              THEN [status |-> "IndexError", errors |-> errs]
              ELSE [status |-> "returned",
                    errors |-> [k \in 1..Len(errs) |->
                                  IF (k - 1) \in Range(bad.inds)
                                  THEN BadPixelError ELSE errs[k]]]

\* update_errors is called and returns or raises
UpdateErrors ==
    /\ pc = "update"
    /\ LET r == update_errors(errors, mask_spectra, bad_pixels_dict, nwave) IN
           /\ pc' = r.status
           /\ updated_errors' = r.errors
    /\ UNCHANGED <<errors, mask_spectra, bad_pixels_dict, nwave>>
    /\ UNCHANGED <<matcherVars, cutVars, gridVars, normVars>>

\* the dictionaries: some bit positions as keys, a value under each
Dicts == UNION {[K -> {0, 1}] : K \in SUBSET (0..MaxBit)}

InitInflate ==
    /\ errors \in SeqsUpTo({UnitError, BadPixelError}, MaxPix)
    /\ mask_spectra \in SeqsUpTo(0..(Pow2(MaxBit + 1) - 1), MaxPix)
    /\ bad_pixels_dict \in Dicts
    /\ nwave \in 0..MaxPix
    /\ updated_errors = <<>>
    /\ pc = "update"
    /\ MatcherIdle /\ CutIdle /\ GridIdle /\ NormIdle

SpecInflate == InitInflate /\ [][UpdateErrors]_vars

(***************************************************************************)
(* create_wavelengths (data_cleaner.py lines 119-139)                      *)
(***************************************************************************)
\* line 139: the number of samples, and the multiplier of delta in the stop
\* value
NumSamples == 8575
StopMultiplier == 8575

\* np.linspace(start, stop, num)[k] = start + k * (stop - start) / (num - 1),
\* here multiplied by num - 1 to stay in the integers
LinspaceScaled(start, stop, num, k) == start * (num - 1) + k * (stop - start)

\* line 139: np.logspace(start, start + delta*8575, 8575) is 10 to the power
\* of np.linspace of the same arguments; the result is given by its
\* exponents, each multiplied by 8574
create_wavelengths(start, delta) ==
    [k \in 1..NumSamples |->
        LinspaceScaled(start, start + delta * StopMultiplier, NumSamples, k - 1)]

\* create_wavelengths is called and returns
CreateWavelengths ==
    /\ pc = "create"
    /\ exponent' = create_wavelengths(crval1, cdelt1)
    /\ pc' = "done"
    /\ UNCHANGED <<crval1, cdelt1, matcherVars, cutVars, inflateVars, normVars>>

InitGrid ==
    /\ crval1 \in 0..MaxStart
    /\ cdelt1 \in 0..MaxDelta
    /\ exponent = <<>>
    /\ pc = "create"
    /\ MatcherIdle /\ CutIdle /\ InflateIdle /\ NormIdle

SpecGrid == InitGrid /\ [][CreateWavelengths]_vars

(***************************************************************************)
(* get_continuum_wavelengths (data_cleaner.py lines 4-25)                  *)
(***************************************************************************)
\* line 25: wavelengths[is_continuum == True], the flagged entries of the
\* table in the order of the file; a boolean index of another length than
\* the table raises IndexError
get_continuum_wavelengths(wavelengths, is_continuum) ==
    IF Len(is_continuum) # Len(wavelengths)
    THEN [status |-> "IndexError", wavelengths |-> <<>>]
    ELSE [status |-> "ok",
          wavelengths |->
              Take(wavelengths,
                   WhereIndices({k \in Indices(wavelengths) : At(is_continuum, k)}))]

\* line 23: what np.load can find in the file, a wavelength column and a
\* column of flags
ContinuumFiles ==
    SeqsUpTo(0..MaxNormVal, MaxNormCont) \X SeqsUpTo(BOOLEAN, MaxNormCont)

\* lines 23-25 on each of these files: what the call of line 171 can come to
ContinuumReads ==
    {get_continuum_wavelengths(f[1], f[2]) : f \in ContinuumFiles}

(***************************************************************************)
(* data_normalizer (data_cleaner.py lines 148-206): its control flow.      *)
(* The grid of line 170 has NumSamples entries 10^exponent, which are no   *)
(* integers; here it is an array of NormGridLen integers in the order      *)
(* create_wavelengths gives them: rising when cdelt1 > 0, all equal when   *)
(* cdelt1 = 0, falling when cdelt1 < 0.  The arrays of the HDUs (spectrum, *)
(* errors, mask_spectra) and nwave have the lengths and the value the file *)
(* gives them, which need not be the grid's.  The values of spectrum and   *)
(* errors decide no branch; their lengths do.  raised_at is the line of    *)
(* data_normalizer at which an exception leaves it.                        *)
(***************************************************************************)
\* line 139 as seen by data_normalizer: the order of the samples follows the
\* sign of delta
Grids(delta) ==
    {g \in [1..NormGridLen -> 0..MaxNormVal] :
        \A k \in 1..(NormGridLen - 1) :
            /\ delta > 0 => g[k] < g[k + 1]
            /\ delta = 0 => g[k] = g[k + 1]
            /\ delta < 0 => g[k] > g[k + 1]}

\* a[inds] of lines 180-183 raises IndexError when an index is not one of a
IndexableBy(a, inds) == \A k \in Range(inds) : InRange(a, k)

\* line 171 raises: the file's flags do not fit its table
LoadRaises ==
    /\ pc = "normalize"
    /\ \E c \in ContinuumReads : c.status # "ok"
    /\ pc' = "IndexError"
    /\ raised_at' = 171
    /\ UNCHANGED <<matcherVars, cutVars, inflateVars, gridVars>>
    /\ UNCHANGED <<cont_cut_inds, cont_inds, dense_cut_inds, spectrum>>

\* line 173 raises: update_errors ends the run
InflateRaises ==
    /\ pc = "normalize"
    /\ LET r == update_errors(errors, mask_spectra, bad_pixels_dict, nwave) IN
           /\ r.status # "returned"
           /\ pc' = r.status
           /\ updated_errors' = r.errors
    /\ raised_at' = 173
    /\ UNCHANGED <<errors, mask_spectra, bad_pixels_dict, nwave>>
    /\ UNCHANGED <<matcherVars, cutVars, gridVars>>
    /\ UNCHANGED <<cont_cut_inds, cont_inds, dense_cut_inds, spectrum>>

\* lines 170-173: the grid is built, the continuum wavelengths are read, the
\* spectrum is copied and the errors are inflated
Prepare ==
    /\ pc = "normalize"
    /\ LET r == update_errors(errors, mask_spectra, bad_pixels_dict, nwave) IN
           /\ r.status = "returned"
           /\ updated_errors' = r.errors
    /\ spec_wavelengths' \in Grids(cdelt1)
    /\ \E c \in ContinuumReads :
           /\ c.status = "ok"
           /\ cont_wavelengths' = c.wavelengths
    /\ pc' = "prepared"
    /\ UNCHANGED <<errors, mask_spectra, bad_pixels_dict, nwave>>
    /\ UNCHANGED <<i, j, fit_bools, matched, steps, cutVars, gridVars, normVars>>

\* lines 176-183: the arrays are cut to the interval; spectrum (line 182)
\* and errors (line 183) are indexed with the grid's cut_inds
Restrict ==
    /\ pc = "prepared"
    /\ cut_inds' = interval_cut(spec_wavelengths, interval)
    /\ cont_cut_inds' = interval_cut(cont_wavelengths, interval)
    /\ spec_wavelengths' = Take(spec_wavelengths, cut_inds')
    /\ cont_wavelengths' = Take(cont_wavelengths, cont_cut_inds')
    /\ IF ~IndexableBy(spectrum, cut_inds')
       THEN /\ pc' = "IndexError"
            /\ raised_at' = 182
            /\ UNCHANGED <<spectrum, updated_errors>>
       ELSE IF ~IndexableBy(updated_errors, cut_inds')
       THEN /\ pc' = "IndexError"
            /\ raised_at' = 183
            /\ spectrum' = Take(spectrum, cut_inds')
            /\ UNCHANGED updated_errors
       ELSE /\ pc' = "restricted"
            /\ spectrum' = Take(spectrum, cut_inds')
            /\ updated_errors' = Take(updated_errors, cut_inds')
            /\ UNCHANGED raised_at
    /\ UNCHANGED <<i, j, fit_bools, matched, steps, data, interval>>
    /\ UNCHANGED <<errors, mask_spectra, bad_pixels_dict, nwave>>
    /\ UNCHANGED <<cont_inds, dense_cut_inds, gridVars>>

\* lines 186-189: closest_value on the cut arrays
Match ==
    /\ pc = "restricted"
    /\ LET r == closest_value(cont_wavelengths, spec_wavelengths) IN
           /\ pc' = IF r.status = "ok" THEN "matched" ELSE r.status
           /\ raised_at' = IF r.status = "ok" THEN raised_at ELSE 186
           /\ cont_inds' = r.fit_bools
    /\ UNCHANGED <<matcherVars, cutVars, inflateVars, gridVars>>
    /\ UNCHANGED <<cont_cut_inds, dense_cut_inds, spectrum>>

\* lines 192-196, the arguments: spec_wavelengths[0] and [-1] of line 194
\* raise IndexError on an empty array
FitArguments ==
    /\ pc = "matched"
    /\ pc' = IF Len(spec_wavelengths) = 0 THEN "IndexError" ELSE "fit"
    /\ raised_at' = IF Len(spec_wavelengths) = 0 THEN 194 ELSE raised_at
    /\ UNCHANGED <<matcherVars, cutVars, inflateVars, gridVars>>
    /\ UNCHANGED <<cont_cut_inds, cont_inds, dense_cut_inds, spectrum>>

\* lines 192-196, the call.  The code makes no test of its own on the
\* anchors.  numpy's Chebyshev.fit raises on an empty x; on a single x its
\* domain has no width, which older releases divide by (the fit then fails
\* in the solver) and newer ones widen; on two or more x it fits, with a
\* warning of a poorly conditioned fit when there are fewer than deg + 1.
FitRaises ==
    /\ pc = "fit"
    /\ TrueCount(cont_inds) = 0
    /\ pc' = "ValueError"
    /\ raised_at' = 192
    /\ UNCHANGED <<matcherVars, cutVars, inflateVars, gridVars>>
    /\ UNCHANGED <<cont_cut_inds, cont_inds, dense_cut_inds, spectrum>>

FitSingular ==
    /\ pc = "fit"
    /\ TrueCount(cont_inds) = 1
    /\ pc' = "LinAlgError"
    /\ raised_at' = 192
    /\ UNCHANGED <<matcherVars, cutVars, inflateVars, gridVars>>
    /\ UNCHANGED <<cont_cut_inds, cont_inds, dense_cut_inds, spectrum>>

FitReturns ==
    /\ pc = "fit"
    /\ TrueCount(cont_inds) >= 1
    /\ pc' = "fitted"
    /\ UNCHANGED <<matcherVars, cutVars, inflateVars, gridVars, normVars>>

\* lines 199-206: the cut arrays are cut again, divided by the fit and returned
Normalize ==
    /\ pc = "fitted"
    /\ dense_cut_inds' = interval_cut(spec_wavelengths, interval)
    /\ pc' = "returned"
    /\ UNCHANGED <<matcherVars, cutVars, inflateVars, gridVars>>
    /\ UNCHANGED <<cont_cut_inds, cont_inds, spectrum, raised_at>>

NormNext ==
    \/ LoadRaises \/ InflateRaises \/ Prepare \/ Restrict \/ Match
    \/ FitArguments \/ FitRaises \/ FitSingular \/ FitReturns \/ Normalize

\* the dictionaries of the documented format, {'<digit>': 1}
NormDicts == UNION {[K -> {1}] : K \in SUBSET (0..MaxNormBit)}

\* data_normalizer is entered: the HDUs, the interval and the dictionary are
\* its arguments, no local is set yet
InitNorm ==
    /\ spectrum \in SeqsUpTo({1}, NormGridLen)
    /\ errors \in SeqsUpTo({UnitError}, NormGridLen)
    /\ mask_spectra \in SeqsUpTo(0..(Pow2(MaxNormBit + 1) - 1), NormGridLen)
    /\ nwave \in 0..NormGridLen
    /\ bad_pixels_dict \in NormDicts
    /\ crval1 = 0
    /\ cdelt1 \in -1..1
    /\ interval \in (-1..(MaxNormVal + 1)) \X (-1..(MaxNormVal + 1))
    /\ pc = "normalize"
    /\ raised_at = 0
    /\ updated_errors = <<>>
    /\ exponent = <<>>
    /\ data = <<>> /\ cut_inds = <<>>
    /\ cont_cut_inds = <<>> /\ cont_inds = <<>> /\ dense_cut_inds = <<>>
    /\ MatcherIdle

SpecNorm == InitNorm /\ [][NormNext]_vars

(***************************************************************************)
(* Properties of closest_value.                                            *)
(***************************************************************************)
Dist(sw, k, c) == Abs(At(sw, k) - c)

\* C2: on strictly increasing arrays with at least two spectrum wavelengths,
\* the index recorded for each continuum wavelength is a nearest neighbour:
\* no index of the spectrum, adjacent or not, is strictly closer to it.
C2_NearestNeighbour ==
    Len(spec_wavelengths) >= 2 =>
        \A t \in 1..Len(matched) : \A k \in Indices(spec_wavelengths) :
            Dist(spec_wavelengths, matched[t], cont_wavelengths[t])
                <= Dist(spec_wavelengths, k, cont_wavelengths[t])

\* a finished sweep whose second match started from a carried-over cursor
C2_Witness ==
    /\ pc = "done"
    /\ Len(spec_wavelengths) >= 4
    /\ Len(matched) = 2
    /\ matched[1] >= 1
    /\ matched[2] >= matched[1] + 2

\* C3: on strictly increasing arrays the index recorded for a continuum
\* wavelength is the smallest of the indices at minimum distance from it, so
\* of two equidistant spectrum wavelengths the lower index is recorded.
C3_TieLowerIndex ==
    \A t \in 1..Len(matched) :
        LET c == cont_wavelengths[t]
            best == {k \in Indices(spec_wavelengths) :
                        \A l \in Indices(spec_wavelengths) :
                            Dist(spec_wavelengths, k, c) <= Dist(spec_wavelengths, l, c)}
        IN  matched[t] \in best /\ \A k \in best : matched[t] <= k

\* the scenario of the specification, wavelengths doubled and shifted:
\* S = 4000..4004 and C = 4000.5, 4003.5 give the matches 0 and 3
C3_Witness ==
    /\ pc = "done"
    /\ spec_wavelengths = <<0, 2, 4, 6, 8>>
    /\ cont_wavelengths = <<1, 7>>
    /\ matched = <<0, 3>>

\* C9: with a non-empty spectrum array, sorted or not, the cursor stays in
\* 0..m-1, no read is out of range, at most m-1 advances and n+m-1 loop steps
\* are made and the sweep is never stuck before it returns; the cursor never
\* decreases and is not changed when the loop moves to the next continuum
\* wavelength.
C9_CursorInv ==
    Len(spec_wavelengths) >= 1 =>
        /\ 0 <= j /\ j <= Len(spec_wavelengths) - 1
        /\ pc # "IndexError"
        /\ steps <= Len(cont_wavelengths) + Len(spec_wavelengths) - 1
        /\ steps = i + j
        /\ (pc = "loop" => ENABLED Next)

C9_CursorForward ==
    /\ []C9_CursorInv
    /\ [][j' >= j /\ (i' # i => j' = j)]_vars

\* an unsorted spectrum swept to its last index in n + m - 1 steps
C9_Witness ==
    /\ pc = "done"
    /\ ~StrictlyIncreasing(spec_wavelengths)
    /\ Len(spec_wavelengths) = 3
    /\ Len(cont_wavelengths) = 2
    /\ j = 2
    /\ steps = 4

\* C10: the mask returned has the length of the spectrum array and is true
\* exactly at the recorded indices; with no continuum wavelength it is all
\* false, and it has at most n true entries, fewer when two continuum
\* wavelengths recorded the same index.
C10_MaskMarksMatches ==
    pc = "done" =>
        /\ Len(fit_bools) = Len(spec_wavelengths)
        /\ \A k \in Indices(spec_wavelengths) :
               At(fit_bools, k) <=> \E t \in 1..Len(matched) : matched[t] = k
        /\ Len(matched) = Len(cont_wavelengths)
        /\ (Len(cont_wavelengths) = 0 => TrueCount(fit_bools) = 0)
        /\ TrueCount(fit_bools) <= Len(cont_wavelengths)
        /\ ((\E t, u \in 1..Len(matched) : t # u /\ matched[t] = matched[u])
               => TrueCount(fit_bools) < Len(cont_wavelengths))

\* two continuum wavelengths that share their spectrum index
C10_Witness ==
    /\ pc = "done"
    /\ Len(cont_wavelengths) = 2
    /\ Len(spec_wavelengths) = 3
    /\ matched[1] = matched[2]
    /\ matched[1] = 1
    /\ TrueCount(fit_bools) = 1

(***************************************************************************)
(* Properties of interval_cut.                                             *)
(***************************************************************************)
\* C4: interval_cut returns exactly the indices i with lo < W[i] < hi, each
\* once and in ascending order, and an empty result exactly when there is no
\* such index.
C4_ExactOpenInterval ==
    pc = "done" =>
        LET inside == {k \in Indices(data) :
                          interval[1] < At(data, k) /\ At(data, k) < interval[2]}
        IN  /\ StrictlyIncreasing(cut_inds)
            /\ Range(cut_inds) = inside
            /\ (cut_inds = <<>> <=> inside = {})

\* an unsorted array with a value on each bound and one strictly inside
C4_Witness ==
    /\ pc = "done"
    /\ data = <<2, 1, 0>>
    /\ interval = <<0, 2>>
    /\ cut_inds = <<1>>

(***************************************************************************)
(* Properties of update_errors.                                            *)
(***************************************************************************)
\* bit b is set in v
HasBit(v, b) == (v \div Pow2(b)) % 2 = 1

EqualLengths == Len(errors) = Len(mask_spectra) /\ Len(mask_spectra) = nwave

\* C1 as claimed: on arrays of one length the result is 1e10 exactly at the
\* pixels with a set bit that the dictionary marks significant, and the input
\* error elsewhere; a zero bitmask is never inflated and a dictionary that
\* marks no bit significant inflates nothing.
C1_InflatedIffSignificant ==
    (pc = "returned" /\ EqualLengths) =>
        LET significant == {b \in DOMAIN bad_pixels_dict : bad_pixels_dict[b] = 1} IN
        /\ Len(updated_errors) = Len(errors)
        /\ \A k \in 1..Len(errors) :
               LET flagged == \E b \in significant : HasBit(mask_spectra[k], b) IN
               /\ updated_errors[k] = BadPixelError <=> flagged
               /\ ~flagged => updated_errors[k] = errors[k]
        /\ (significant = {} => updated_errors = errors)

\* C1 amended: on arrays of one non-zero length update_errors returns, and
\* the result is 1e10 at the pixels with a set bit whose position is a key of
\* the dictionary, whatever is stored under the key, and the input error
\* (which may itself be 1e10) elsewhere; a zero bitmask is never inflated and
\* a dictionary without keys inflates nothing.
C1_InflatedAtKeyBits ==
    /\ (pc # "update" /\ EqualLengths /\ nwave >= 1) => pc = "returned"
    /\ (pc = "returned" /\ EqualLengths) =>
        /\ Len(updated_errors) = Len(errors)
        /\ \A k \in 1..Len(errors) :
               LET flagged == \E b \in DOMAIN bad_pixels_dict : HasBit(mask_spectra[k], b) IN
               /\ flagged => updated_errors[k] = BadPixelError
               /\ ~flagged => updated_errors[k] = errors[k]
               /\ mask_spectra[k] = 0 => updated_errors[k] = errors[k]
        /\ (DOMAIN bad_pixels_dict = {} => updated_errors = errors)

\* a good pixel beside a pixel that only the second of two keys flags
C1_Witness ==
    /\ pc = "returned"
    /\ errors = <<UnitError, UnitError>>
    /\ mask_spectra = <<0, 2>>
    /\ nwave = 2
    /\ DOMAIN bad_pixels_dict = {0, 1}
    /\ updated_errors = <<UnitError, BadPixelError>>

\* C7: update_errors raises when the error array, the bitmask array and
\* nwave do not have one length, and returns when they have (a non-zero) one.
C7_LengthMismatchFails ==
    pc # "update" =>
        /\ ~EqualLengths => pc \in {"ValueError", "IndexError"}
        /\ (EqualLengths /\ nwave >= 1) => pc = "returned"

(***************************************************************************)
(* Properties of create_wavelengths.                                       *)
(***************************************************************************)
\* C8: the exponent of sample i is start + delta*i for every i in 0..8574
\* (both sides multiplied by 8574), consecutive exponents differ by delta,
\* and the grid is strictly increasing for delta > 0.
C8_ExponentLinearInIndex ==
    pc = "done" =>
        /\ Len(exponent) = NumSamples
        /\ \A k \in 0..(NumSamples - 1) :
               At(exponent, k) = (crval1 + cdelt1 * k) * (NumSamples - 1)
        /\ \A k \in 0..(NumSamples - 2) :
               At(exponent, k + 1) - At(exponent, k) = cdelt1 * (NumSamples - 1)
        /\ (cdelt1 > 0 =>
               \A k \in 0..(NumSamples - 2) : At(exponent, k) < At(exponent, k + 1))

(***************************************************************************)
(* Properties of data_normalizer.                                          *)
(***************************************************************************)
\* the restriction step of data_normalizer (lines 176-183) has been reached
CutDone ==
    \/ pc \in {"restricted", "matched", "fit", "fitted", "returned"}
    \/ raised_at >= 182

\* C5: when the interval selects no spectrum wavelength the run ends at the
\* restriction step with an "empty interval" error: it does not go on to the
\* matcher or the fit, returns nothing and raises no other error.
C5_EmptyIntervalFails ==
    (CutDone /\ Len(cut_inds) = 0) => pc = "EmptyIntervalError"

\* C6: the degree-2 fit is made, and normalized arrays are returned, only
\* from three or more distinct anchor points.
C6_FitNeedsThreeAnchors ==
    pc \in {"fitted", "returned"} => TrueCount(cont_inds) >= 3

====
